---- MODULE Spec2Model ----
(***************************************************************************)
(* Model of the CSPC 2023 search application                               *)
(* (src/Query_Corpos_PanelGroups_CloudDeployement.py): the panel metadata  *)
(* lookup and enumerations against the CSPC_Panels collection, and the     *)
(* search handler of main(): filters, embedding, hybrid query, rerank,     *)
(* truncation, answer generation, ranking and grouping by panel.           *)
(*                                                                         *)
(* Python strings are sequences of one-character strings.  Python values   *)
(* of mixed type are tagged tuples: <<"none">>, <<"str", s>>, <<"int", n>>,*)
(* <<"list", l>>.  A Python dict is a function from keys to tagged values. *)
(***************************************************************************)
EXTENDS Integers, Sequences, FiniteSets, TLC

(***************************************************************************)
(* Python values                                                           *)
(***************************************************************************)
NONE == <<"none">>
StrV(s) == <<"str", s>>
IntV(n) == <<"int", n>>
ListV(l) == <<"list", l>>

EmptyDict == [k \in {} |-> NONE]

\* bool(v) of Python: None, "", 0 and [] are falsy
Truthy(v) ==
  CASE v[1] = "none" -> FALSE
    [] v[1] = "str" -> v[2] # <<>>
    [] v[1] = "int" -> v[2] # 0
    [] v[1] = "list" -> v[2] # <<>>
    [] OTHER -> TRUE

\* d.get(k, default)
DictGet(d, k, default) == IF k \in DOMAIN d THEN d[k] ELSE default

\* a or b
PyOr(a, b) == IF Truthy(a) THEN a ELSE b

(***************************************************************************)
(* Strings                                                                 *)
(***************************************************************************)
DigitChars == <<"0", "1", "2", "3", "4", "5", "6", "7", "8", "9">>

IsDigit(c) == \E i \in 1..10 : DigitChars[i] = c

DigitVal(c) == (CHOOSE i \in 1..10 : DigitChars[i] = c) - 1

IsSpace(c) == c \in {" ", "\t", "\n"}

RECURSIVE LStrip(_)
LStrip(s) == IF s # <<>> /\ IsSpace(Head(s)) THEN LStrip(Tail(s)) ELSE s

RECURSIVE RStrip(_)
RStrip(s) ==
  IF s # <<>> /\ IsSpace(s[Len(s)]) THEN RStrip(SubSeq(s, 1, Len(s) - 1)) ELSE s

\* s.strip()
Strip(s) == RStrip(LStrip(s))

\* value of a digit string with single underscores already validated
RECURSIVE DigitsValue(_, _)
DigitsValue(s, acc) ==
  IF s = <<>> THEN acc
  ELSE IF Head(s) = "_" THEN DigitsValue(Tail(s), acc)
  ELSE DigitsValue(Tail(s), acc * 10 + DigitVal(Head(s)))

\* the body of an integer literal: digits, single underscores between digits
IsIntBody(s) ==
  /\ s # <<>>
  /\ IsDigit(s[1])
  /\ IsDigit(s[Len(s)])
  /\ \A i \in 1..Len(s) : IsDigit(s[i]) \/ s[i] = "_"
  /\ \A i \in 1..(Len(s) - 1) : ~(s[i] = "_" /\ s[i + 1] = "_")

\* int(s) for a str s: surrounding whitespace, optional sign, digits;
\* ok = FALSE stands for ValueError
PyInt(s) ==
  LET t == Strip(s)
      signed == t # <<>> /\ Head(t) \in {"+", "-"}
      body == IF signed THEN Tail(t) ELSE t
  IN IF IsIntBody(body)
       THEN [ok |-> TRUE,
             val |-> IF signed /\ Head(t) = "-"
                       THEN 0 - DigitsValue(body, 0) ELSE DigitsValue(body, 0)]
       ELSE [ok |-> FALSE, val |-> 0]

\* decimal digits of a natural number
RECURSIVE NatToStr(_)
NatToStr(n) ==
  IF n < 10 THEN <<DigitChars[n + 1]>>
  ELSE NatToStr(n \div 10) \o <<DigitChars[(n % 10) + 1]>>

\* str(v) for a str or an int
PyStr(v) ==
  CASE v[1] = "str" -> v[2]
    [] v[1] = "int" -> IF v[2] < 0 THEN <<"-">> \o NatToStr(0 - v[2]) ELSE NatToStr(v[2])
    [] OTHER -> <<"N", "o", "n", "e">>

\* s.isdigit()
IsDigitStr(s) == s # <<>> /\ \A i \in 1..Len(s) : IsDigit(s[i])

(***************************************************************************)
(* String constants                                                        *)
(***************************************************************************)
s11 == <<"1", "1">>
s333 == <<"3", "3", "3">>
sUnknown == <<"U", "n", "k", "n", "o", "w", "n">>
sAll == <<"A", "l", "l">>
sPanelPrefix == <<"P", "a", "n", "e", "l", " ">>
sSep == <<" ", "-", " ">>
sEllipsis == <<".", ".", ".">>
ThemeA == <<"A", "I">>
ThemeB == <<"B", "i", "o">>
TitleA == <<"T", "a">>
TitleB == <<"T", "b">>
UrlA == <<"u", "a">>
UrlB == <<"u", "b">>

(***************************************************************************)
(* The CSPC_Panels collection                                              *)
(***************************************************************************)
\* panel 11: code stored as text, photo fields stored as lists
Panel11 ==
  [panel_code |-> StrV(s11), title |-> StrV(TitleA), theme |-> StrV(ThemeA),
   photo_url |-> ListV(<<StrV(UrlA), StrV(UrlB)>>),
   speaker_photo_url |-> ListV(<<>>),
   panel_organized_by |-> StrV(TitleB)]

\* panel 333: code stored as an integer, most fields absent
Panel333 ==
  [panel_code |-> IntV(333), title |-> StrV(TitleB), theme |-> StrV(ThemeB),
   photo_url |-> StrV(UrlB)]

\* a second record of theme A whose code is stored as an integer
Panel7 ==
  [panel_code |-> IntV(7), theme |-> StrV(ThemeA)]

\* a record with neither code nor theme
PanelBare ==
  [title |-> StrV(TitleA)]

PanelUniverse == <<Panel333, Panel11, Panel7, PanelBare>>

\* the subsequences of q, in q's order
RECURSIVE SubSeqs(_)
SubSeqs(q) ==
  IF q = <<>> THEN {<<>>}
  ELSE LET rest == SubSeqs(Tail(q))
       IN rest \cup {<<Head(q)>> \o r : r \in rest}

\* bound: number of records held by the metadata collection
MaxPanels == 2

PanelStores == {q \in SubSeqs(PanelUniverse) : Len(q) <= MaxPanels}

\* the elements of q satisfying Test, in order
RECURSIVE SelectRecs(_, _, _)
SelectRecs(q, prop, val) ==
  IF q = <<>> THEN <<>>
  ELSE IF prop \in DOMAIN Head(q) /\ Head(q)[prop] = val
         THEN <<Head(q)>> \o SelectRecs(Tail(q), prop, val)
         ELSE SelectRecs(Tail(q), prop, val)

FirstN(q, n) == SubSeq(q, 1, IF Len(q) < n THEN Len(q) ELSE n)

\* query.fetch_objects(filters=Filter.by_property(prop).equal(val), limit=n)
\* when the store answers: a stored value matches a value of its own type
FetchEqual(store, prop, val, n) == FirstN(SelectRecs(store, prop, val), n)

\* query.fetch_objects(limit=n) when the store answers
FetchAll(store, n) == FirstN(store, n)

(***************************************************************************)
(* get_panel_metadata_from_cspc_panels                                     *)
(***************************************************************************)
_first_or_value(val) ==
  IF val[1] = "list"
    THEN (IF val[2] # <<>> THEN val[2][1] ELSE NONE)
    ELSE val

\* the dict built from the first object's properties
PanelRecord(panel_data) ==
  [panel_code |-> DictGet(panel_data, "panel_code", NONE),
   title |-> DictGet(panel_data, "title", StrV(<<>>)),
   theme |-> DictGet(panel_data, "theme", StrV(<<>>)),
   photo_url |-> _first_or_value(DictGet(panel_data, "photo_url", NONE)),
   speaker_photo_url |-> _first_or_value(DictGet(panel_data, "speaker_photo_url", NONE)),
   organized_by |-> PyOr(DictGet(panel_data, "organized_by", NONE),
                         DictGet(panel_data, "panel_organized_by", StrV(<<>>))),
   speakers |-> DictGet(panel_data, "speakers", ListV(<<>>)),
   panel_date |-> DictGet(panel_data, "panel_date", StrV(<<>>)),
   abstract |-> DictGet(panel_data, "abstract", StrV(<<>>)),
   panel_url |-> DictGet(panel_data, "panel_url", StrV(<<>>)),
   external_details_url |-> DictGet(panel_data, "external_details_url", StrV(<<>>))]

\* Outcome of a block of code: it returns ret, or an exception leaves it
\* (raised).  attempts lists the queries sent to the store so far and
\* notice is the message written to the sidebar.
Returned(ret, attempts, notice) ==
  [raised |-> FALSE, ret |-> ret, attempts |-> attempts, notice |-> notice]

Raised(attempts) ==
  [raised |-> TRUE, ret |-> EmptyDict, attempts |-> attempts, notice |-> "none"]

\* the code after a response was obtained (lines 267-292)
LookupFromResponse(objs, attempts) ==
  IF objs = <<>>
    THEN Returned(EmptyDict, attempts, "none")
    ELSE Returned(PanelRecord(objs[1]), attempts, "none")

\* the integer-typed query: int(panel_code) raises ValueError for a code
\* that is no integer literal, the query raises when intOk is FALSE
IntQuery(store, panel_code, intOk) ==
  IF ~PyInt(panel_code).ok THEN [raised |-> TRUE, objs |-> <<>>, attempts |-> <<"str">>]
  ELSE IF ~intOk THEN [raised |-> TRUE, objs |-> <<>>, attempts |-> <<"str", "int">>]
  ELSE [raised |-> FALSE,
        objs |-> FetchEqual(store, "panel_code", IntV(PyInt(panel_code).val), 1),
        attempts |-> <<"str", "int">>]

\* try: integer query / except Exception: warning, return {}
IntFallback(store, panel_code, intOk) ==
  LET q == IntQuery(store, panel_code, intOk)
  IN IF q.raised
       THEN Returned(EmptyDict, q.attempts, "warning")
       ELSE LookupFromResponse(q.objs, q.attempts)

\* try: text query / except: integer fallback
QueryByCode(store, panel_code, strOk, intOk) ==
  IF strOk
    THEN LookupFromResponse(FetchEqual(store, "panel_code", StrV(PyStr(StrV(panel_code))), 1),
                            <<"str">>)
    ELSE IntFallback(store, panel_code, intOk)

\* the body of the outer try: collections.get, then the queries
LookupBody(store, panel_code, collOk, strOk, intOk) ==
  IF ~collOk THEN Raised(<<>>)
  ELSE QueryByCode(store, panel_code, strOk, intOk)

\* variant: no outer try/except
get_panel_metadata_NoOuterExcept(store, panel_code, collOk, strOk, intOk) ==
  IF panel_code = <<>>
    THEN Returned(EmptyDict, <<>>, "none")
    ELSE LookupBody(store, panel_code, collOk, strOk, intOk)

\* collOk, strOk, intOk: whether the collection access, the text-typed query
\* and the integer-typed query are answered by the store (FALSE: they raise)
get_panel_metadata_from_cspc_panels(store, panel_code, collOk, strOk, intOk) ==
  IF panel_code = <<>>
    THEN Returned(EmptyDict, <<>>, "none")
    ELSE LET body == LookupBody(store, panel_code, collOk, strOk, intOk)
         IN IF body.raised
              THEN Returned(EmptyDict, body.attempts, "error")
              ELSE body

(***************************************************************************)
(* Ordering and sorting                                                    *)
(***************************************************************************)
\* the characters of the model's strings in code point order
Alphabet ==
  <<"\t", "\n", " ", "+", "-", ".", "/", "0", "1", "2", "3", "4", "5", "6", "7",
    "8", "9", ":", "A", "B", "I", "N", "P", "T", "U", "_", "a", "b", "c", "e",
    "i", "k", "l", "m", "n", "o", "p", "r", "s", "t", "u", "w", "x">>

CharOrd(c) == CHOOSE i \in 1..Len(Alphabet) : Alphabet[i] = c

\* a < b for Python str
RECURSIVE StrLess(_, _)
StrLess(a, b) ==
  IF b = <<>> THEN FALSE
  ELSE IF a = <<>> THEN TRUE
  ELSE IF Head(a) = Head(b) THEN StrLess(Tail(a), Tail(b))
  ELSE CharOrd(Head(a)) < CharOrd(Head(b))

\* sorted(list(S)) for a set S of str
RECURSIVE SortedStrs(_)
SortedStrs(S) ==
  IF S = {} THEN <<>>
  ELSE LET m == CHOOSE x \in S : \A y \in S \ {x} : StrLess(x, y)
       IN <<m>> \o SortedStrs(S \ {m})

\* index i placed behind every index whose key is not larger: one step of
\* a stable ascending sort
RECURSIVE InsertAsc(_, _, _)
InsertAsc(sorted, i, keys) ==
  IF sorted = <<>> THEN <<i>>
  ELSE IF keys[Head(sorted)] <= keys[i]
         THEN <<Head(sorted)>> \o InsertAsc(Tail(sorted), i, keys)
         ELSE <<i>> \o sorted

\* the order in which a stable ascending sort puts the indices 1..n
RECURSIVE AscPerm(_, _)
AscPerm(keys, n) ==
  IF n = 0 THEN <<>> ELSE InsertAsc(AscPerm(keys, n - 1), n, keys)

\* list.sort(key=...) / sorted(q, key=...): stable, ascending; keys[i] is the
\* key of q[i]
SortAsc(q, keys) ==
  LET perm == AscPerm(keys, Len(q))
  IN [i \in 1..Len(q) |-> q[perm[i]]]

\* index i placed behind every index whose key is not smaller
RECURSIVE InsertDesc(_, _, _)
InsertDesc(sorted, i, keys) ==
  IF sorted = <<>> THEN <<i>>
  ELSE IF keys[Head(sorted)] >= keys[i]
         THEN <<Head(sorted)>> \o InsertDesc(Tail(sorted), i, keys)
         ELSE <<i>> \o sorted

RECURSIVE DescPerm(_, _)
DescPerm(keys, n) ==
  IF n = 0 THEN <<>> ELSE InsertDesc(DescPerm(keys, n - 1), n, keys)

\* list.sort(key=..., reverse=True): descending, equal keys keep their order
SortDesc(q, keys) ==
  LET perm == DescPerm(keys, Len(q))
  IN [i \in 1..Len(q) |-> q[perm[i]]]

(***************************************************************************)
(* get_all_themes, get_all_panels                                          *)
(***************************************************************************)
\* the truthy themes of the scanned objects; a theme that is no str cannot
\* be added to the set
ThemeSet(objs) ==
  {objs[i]["theme"][2] :
     i \in {j \in 1..Len(objs) : "theme" \in DOMAIN objs[j] /\ Truthy(objs[j]["theme"])}}

ThemesHashable(objs) ==
  \A i \in 1..Len(objs) :
    ("theme" \in DOMAIN objs[i] /\ Truthy(objs[i]["theme"])) => objs[i]["theme"][1] = "str"

\* limit of the scans of CSPC_Panels
ScanLimit == 1000

\* body of get_all_themes; scanOk = FALSE: the collection access or the
\* scan raises
get_all_themes(store, scanOk) ==
  IF scanOk /\ ThemesHashable(FetchAll(store, ScanLimit))
    THEN [val |-> SortedStrs(ThemeSet(FetchAll(store, ScanLimit))), notice |-> "none"]
    ELSE [val |-> <<>>, notice |-> "warning"]

\* longest title shown in full
TitleMax == 50

\* the label of a panel in the panel selectbox
PanelDisplay(panel_code, title) ==
  LET base == sPanelPrefix \o PyStr(panel_code)
  IN IF Truthy(title)
       THEN (IF Len(title[2]) > TitleMax
               THEN base \o sSep \o SubSeq(title[2], 1, TitleMax) \o sEllipsis
               ELSE base \o sSep \o title[2])
       ELSE base

\* the (code, display) pairs of the scanned objects with a truthy code
RECURSIVE PanelPairs(_)
PanelPairs(objs) ==
  IF objs = <<>> THEN <<>>
  ELSE LET panel_code == DictGet(Head(objs), "panel_code", NONE)
           title == DictGet(Head(objs), "title", StrV(<<>>))
       IN IF Truthy(panel_code)
            THEN <<[code |-> PyStr(panel_code), display |-> PanelDisplay(panel_code, title)]>>
                   \o PanelPairs(Tail(objs))
            ELSE PanelPairs(Tail(objs))

\* sort key of a code that is not all digits
NonNumericKey == 999999

PanelSortKey(x) == IF IsDigitStr(x.code) THEN PyInt(x.code).val ELSE NonNumericKey

\* body of get_all_panels
get_all_panels(store, scanOk) ==
  IF scanOk
    THEN LET pairs == PanelPairs(FetchAll(store, ScanLimit))
         IN [val |-> SortAsc(pairs, [i \in 1..Len(pairs) |-> PanelSortKey(pairs[i])]),
             notice |-> "none"]
    ELSE [val |-> <<>>, notice |-> "warning"]

\* st.cache_data(ttl=...): lifetime of a cached return value, in seconds
CacheTTL == 3600

\* a cache entry is <<>> (nothing cached) or <<[val, at]>>
CacheFresh(cache, t) == cache # <<>> /\ t - cache[1].at < CacheTTL

(***************************************************************************)
(* More string operations                                                  *)
(***************************************************************************)
\* pat occurs in s at position i
MatchAt(s, pat, i) ==
  /\ i + Len(pat) - 1 <= Len(s)
  /\ \A k \in 1..Len(pat) : s[i + k - 1] = pat[k]

\* s.endswith(pat)
EndsWith(s, pat) == Len(pat) <= Len(s) /\ MatchAt(s, pat, Len(s) - Len(pat) + 1)

\* position of the first occurrence of pat in s, 0 when there is none
FindFirst(s, pat) ==
  IF \E i \in 1..Len(s) : MatchAt(s, pat, i)
    THEN CHOOSE i \in 1..Len(s) : MatchAt(s, pat, i) /\ \A j \in 1..(i - 1) : ~MatchAt(s, pat, j)
    ELSE 0

\* s.split(pat)[0]
SplitHead(s, pat) ==
  IF FindFirst(s, pat) = 0 THEN s ELSE SubSeq(s, 1, FindFirst(s, pat) - 1)

\* s.replace(pat, "")
RECURSIVE RemoveAll(_, _)
RemoveAll(s, pat) ==
  IF s = <<>> THEN <<>>
  ELSE IF MatchAt(s, pat, 1) THEN RemoveAll(SubSeq(s, Len(pat) + 1, Len(s)), pat)
  ELSE <<Head(s)>> \o RemoveAll(Tail(s), pat)

\* s.split(c) for a one-character separator c
RECURSIVE SplitChar(_, _)
SplitChar(s, c) ==
  IF FindFirst(s, <<c>>) = 0 THEN <<s>>
  ELSE <<SubSeq(s, 1, FindFirst(s, <<c>>) - 1)>>
         \o SplitChar(SubSeq(s, FindFirst(s, <<c>>) + 1, Len(s)), c)

\* the digits at the head of s
RECURSIVE DigitPrefix(_)
DigitPrefix(s) ==
  IF s # <<>> /\ IsDigit(Head(s)) THEN <<Head(s)>> \o DigitPrefix(Tail(s)) ELSE <<>>

\* re.search(r'(\d+)', s): the first run of digits; ok = FALSE when there
\* is no match
RECURSIVE FirstDigitRun(_)
FirstDigitRun(s) ==
  IF s = <<>> THEN [ok |-> FALSE, val |-> <<>>]
  ELSE IF IsDigit(Head(s)) THEN [ok |-> TRUE, val |-> DigitPrefix(s)]
  ELSE FirstDigitRun(Tail(s))

(***************************************************************************)
(* time_to_seconds and the audio file name                                 *)
(***************************************************************************)
\* the em dash U+2014, one character, written as the token "emdash"
sDash == <<"emdash">>
sZeroTime == <<"0", "0", ":", "0", "0", ":", "0", "0">>
sTranscriptTxt == <<"_", "t", "r", "a", "n", "s", "c", "r", "i", "p", "t", ".", "t", "x", "t">>
sTxt == <<".", "t", "x", "t">>
sTranscript == <<"_", "t", "r", "a", "n", "s", "c", "r", "i", "p", "t">>
sMp3 == <<".", "m", "p", "3">>

\* the try block of time_to_seconds (lines 370-377) for a truthy time_str
\* that is not the dash; time_str is a tagged value: a str is split at ":",
\* anything else has no split method (AttributeError), and int() of a part
\* that is no integer literal raises ValueError
time_to_seconds_try(time_str) ==
  IF time_str[1] # "str" THEN [raised |-> "AttributeError", ret |-> 0]
  ELSE LET parts == SplitChar(time_str[2], ":")
       IN IF Len(parts) = 3
            THEN (IF PyInt(parts[1]).ok /\ PyInt(parts[2]).ok /\ PyInt(parts[3]).ok
                    THEN [raised |-> "none",
                          ret |-> PyInt(parts[1]).val * 3600 + PyInt(parts[2]).val * 60
                                    + PyInt(parts[3]).val]
                    ELSE [raised |-> "ValueError", ret |-> 0])
          ELSE IF Len(parts) = 2
            THEN (IF PyInt(parts[1]).ok /\ PyInt(parts[2]).ok
                    THEN [raised |-> "none",
                          ret |-> PyInt(parts[1]).val * 60 + PyInt(parts[2]).val]
                    ELSE [raised |-> "ValueError", ret |-> 0])
          ELSE [raised |-> "none", ret |-> 0]

\* variant: the try block without its except clause
time_to_seconds_NoExcept(time_str) ==
  IF ~Truthy(time_str) \/ time_str = StrV(sDash) THEN [raised |-> "none", ret |-> 0]
  ELSE time_to_seconds_try(time_str)

\* a call of time_to_seconds (lines 366-379): what it raises to the caller
\* and what it returns; except (ValueError, AttributeError): return 0
time_to_seconds_call(time_str) ==
  IF ~Truthy(time_str) \/ time_str = StrV(sDash) THEN [raised |-> "none", ret |-> 0]
  ELSE LET t == time_to_seconds_try(time_str)
       IN IF t.raised \in {"ValueError", "AttributeError"}
            THEN [raised |-> "none", ret |-> 0]
            ELSE t

\* the value time_to_seconds returns
time_to_seconds(time_str) == time_to_seconds_call(time_str).ret

DropSuffix(s, suf) == SubSeq(s, 1, Len(s) - Len(suf))

\* audio_filename before ".mp3" is appended (lines 1021-1029): a trailing
\* "_transcript.txt" is cut, else a trailing ".txt"; then a trailing
\* "_transcript" is cut
StrippedName(file_name) ==
  LET a == IF EndsWith(file_name, sTranscriptTxt) THEN DropSuffix(file_name, sTranscriptTxt)
           ELSE IF EndsWith(file_name, sTxt) THEN DropSuffix(file_name, sTxt)
           ELSE file_name
  IN IF EndsWith(a, sTranscript) THEN DropSuffix(a, sTranscript) ELSE a

\* variant: the second test is skipped
AudioFilename_SingleStrip(file_name) ==
  (IF EndsWith(file_name, sTranscriptTxt) THEN DropSuffix(file_name, sTranscriptTxt)
   ELSE IF EndsWith(file_name, sTxt) THEN DropSuffix(file_name, sTxt)
   ELSE file_name) \o sMp3

\* the audio object name of a transcript file name (lines 1021-1031)
AudioFilename(file_name) == StrippedName(file_name) \o sMp3

(***************************************************************************)
(* The DocChunk collection                                                 *)
(***************************************************************************)
s11TranscriptTxt == s11 \o sTranscriptTxt
s333Txt == s333 \o sTxt
sP11Txt == <<"p">> \o s11 \o sTxt
sTime1 == <<"0", "1", ":", "0", "2", ":", "0", "3">>
sTime2 == <<"1", "2", ":", "3", "4">>
sNA == <<"N", "/", "A">>

\* properties of the chunks; a property without value is returned as None
\* or left out
ChunkProps ==
  <<[panel_code |-> StrV(s11), panel_theme |-> StrV(ThemeA),
     file_name |-> StrV(s11TranscriptTxt), chunk_start_time |-> StrV(sTime1)],
    [panel_code |-> StrV(s333), panel_theme |-> StrV(ThemeB),
     file_name |-> StrV(s333Txt), chunk_start_time |-> StrV(sTime2)],
    [panel_code |-> NONE, panel_theme |-> ListV(<<StrV(ThemeB), StrV(ThemeA)>>),
     file_name |-> StrV(sP11Txt), chunk_start_time |-> StrV(sNA)],
    [panel_code |-> StrV(<<>>), chunk_start_time |-> StrV(sDash)],
    [panel_code |-> NONE, panel_theme |-> StrV(ThemeB), file_name |-> NONE,
     chunk_start_time |-> NONE]>>

ChunkIds == 1..Len(ChunkProps)

\* an object returned by the hybrid query; _rerank_score is NONE while the
\* attribute is not set
ChunkObj(id) == [id |-> id, properties |-> ChunkProps[id], _rerank_score |-> NONE]

\* bound: number of chunks the hybrid query can rank for the question
MaxCorpus == 3

\* sequences without repetition over S, of length at most n
RECURSIVE Arrangements(_, _)
Arrangements(S, n) ==
  IF n = 0 THEN {<<>>}
  ELSE {<<>>} \cup {<<x>> \o r : x \in S, r \in Arrangements(S, n - 1)}

NoRepeat(q) == \A i, j \in 1..Len(q) : q[i] = q[j] => i = j

\* the chunks in descending order of hybrid score for the question
Corpora == {q \in Arrangements(ChunkIds, MaxCorpus) : NoRepeat(q)}

(***************************************************************************)
(* Filters and the hybrid query (lines 832-866)                            *)
(***************************************************************************)
\* Filter.by_property("panel_theme").contains_any([t])
ThemeFilter(t) == <<"theme", t>>

\* Filter.by_property("panel_code").equal(c)
PanelFilter(c) == <<"panel", c>>

\* f0 & f1
AndFilter(f0, f1) == <<"and", f0, f1>>

NoFilter == <<"none">>

\* the panel code inside a label of the panel selectbox
PanelCodeOfDisplay(selected_panel) ==
  Strip(RemoveAll(SplitHead(selected_panel, sSep), sPanelPrefix))

\* the list filters
BuildFilters(selected_theme, selected_panel) ==
  (IF selected_theme # sAll THEN <<ThemeFilter(selected_theme)>> ELSE <<>>)
    \o (IF selected_panel # sAll
          THEN <<PanelFilter(PanelCodeOfDisplay(selected_panel))>> ELSE <<>>)

\* variant: only the first filter is applied
WhereOf_FirstOnly(filters) ==
  IF Len(filters) >= 1 THEN filters[1] ELSE NoFilter

\* where, from filters
WhereOf(filters) ==
  IF Len(filters) = 1 THEN filters[1]
  ELSE IF Len(filters) > 1 THEN AndFilter(filters[1], filters[2])
  ELSE NoFilter

\* whether the store's object satisfies a filter
RECURSIVE Matches(_, _)
Matches(props, f) ==
  CASE f[1] = "none" -> TRUE
    [] f[1] = "theme" ->
         /\ "panel_theme" \in DOMAIN props
         /\ \/ props["panel_theme"] = StrV(f[2])
            \/ /\ props["panel_theme"][1] = "list"
               /\ \E i \in 1..Len(props["panel_theme"][2]) :
                    props["panel_theme"][2][i] = StrV(f[2])
    [] f[1] = "panel" ->
         "panel_code" \in DOMAIN props /\ props["panel_code"] = StrV(f[2])
    [] f[1] = "and" -> Matches(props, f[2]) /\ Matches(props, f[3])

\* size of the candidate pool when the reranker is used
RerankPool == 50

\* variant: the pool is not widened
LimitOf_NoPool(use_rr, k) == k

\* limit = 50 if use_reranker else top_k
LimitOf(use_rr, k) == IF use_rr THEN RerankPool ELSE k

\* docchunk_coll.query.hybrid(..., limit, filters) when the store answers:
\* the best limit matching chunks in score order
HybridQuery(ranking, f, limit) ==
  LET matching == SelectSeq(ranking, LAMBDA id : Matches(ChunkProps[id], f))
  IN [i \in 1..Len(FirstN(matching, limit)) |-> ChunkObj(matching[i])]

(***************************************************************************)
(* Rerank and truncation (lines 877-886)                                   *)
(***************************************************************************)
\* bound: rerank scores are 0..MaxScore
MaxScore == 1

\* getattr(x, "_rerank_score", 0)
RerankKey(x) == IF x._rerank_score = NONE THEN 0 ELSE x._rerank_score[2]

\* variant: candidates scored 0 are dropped
Rerank_DropZero(objs, predicted) ==
  LET scored == [i \in 1..Len(objs) |-> [objs[i] EXCEPT !._rerank_score = IntV(predicted[i])]]
  IN SelectSeq(SortDesc(scored, [i \in 1..Len(scored) |-> RerankKey(scored[i])]),
               LAMBDA x : x._rerank_score # IntV(0))

\* variant: ascending sort read backwards, which turns ties around
Rerank_TiesReversed(objs, predicted) ==
  LET scored == [i \in 1..Len(objs) |-> [objs[i] EXCEPT !._rerank_score = IntV(predicted[i])]]
      asc == SortAsc(scored, [i \in 1..Len(scored) |-> RerankKey(scored[i])])
  IN [i \in 1..Len(asc) |-> asc[Len(asc) + 1 - i]]

\* scores attached by zip(objects, scores), then the sort
Rerank(objs, predicted) ==
  LET scored == [i \in 1..Len(objs) |-> [objs[i] EXCEPT !._rerank_score = IntV(predicted[i])]]
  IN SortDesc(scored, [i \in 1..Len(scored) |-> RerankKey(scored[i])])

\* variant: the last k are kept
Truncate_Last(objs, k) ==
  IF Len(objs) <= k THEN objs ELSE SubSeq(objs, Len(objs) - k + 1, Len(objs))

\* objects[:top_k]
Truncate(objs, k) == FirstN(objs, k)

(***************************************************************************)
(* Ranking and grouping (lines 914-933)                                    *)
(***************************************************************************)
\* variant: ranks counted from 0
Ranked_ZeroBased(objs) == [i \in 1..Len(objs) |-> [rank |-> i - 1, obj |-> objs[i]]]

\* ranked = [{"rank": i + 1, "obj": o} for i, o in enumerate(objects)]
Ranked(objs) == [i \in 1..Len(objs) |-> [rank |-> i, obj |-> objs[i]]]

\* the code under which an item is grouped; raised: re.search is given a
\* file_name that is no str (TypeError)
GroupCode(item) ==
  LET panel_code == DictGet(item.obj.properties, "panel_code", StrV(<<>>))
      file_name == DictGet(item.obj.properties, "file_name", StrV(<<>>))
  IN IF Truthy(panel_code) THEN [raised |-> FALSE, code |-> PyStr(panel_code)]
     ELSE IF file_name[1] # "str" THEN [raised |-> TRUE, code |-> <<>>]
     ELSE IF FirstDigitRun(file_name[2]).ok
       THEN [raised |-> FALSE, code |-> FirstDigitRun(file_name[2]).val]
     ELSE [raised |-> FALSE, code |-> sUnknown]

\* the properties of an object are those of its chunk: the code under which
\* each chunk of the store is grouped
ChunkGroupCode == [id \in ChunkIds |-> GroupCode([rank |-> 1, obj |-> ChunkObj(id)])]

\* the codes a panel group can have
GroupCodes == {ChunkGroupCode[id].code : id \in {j \in ChunkIds : ~ChunkGroupCode[j].raised}}

\* panels_dict[code].append(item): a new key goes behind the existing keys
DictAppend(d, code, item) ==
  IF \E i \in 1..Len(d) : d[i].panel_code = code
    THEN [i \in 1..Len(d) |->
            IF d[i].panel_code = code
              THEN [d[i] EXCEPT !.items = Append(d[i].items, item)] ELSE d[i]]
    ELSE Append(d, [panel_code |-> code, items |-> <<item>>])

\* panels_dict after the loop over ranked, as its (key, value) pairs in
\* insertion order; raised when GroupCode raises for some item
RECURSIVE PanelsDict(_)
PanelsDict(ranked) ==
  IF ranked = <<>> THEN [raised |-> FALSE, d |-> <<>>]
  ELSE LET before == PanelsDict(SubSeq(ranked, 1, Len(ranked) - 1))
           gc == ChunkGroupCode[ranked[Len(ranked)].obj.id]
       IN IF before.raised \/ gc.raised THEN [raised |-> TRUE, d |-> <<>>]
          ELSE [raised |-> FALSE, d |-> DictAppend(before.d, gc.code, ranked[Len(ranked)])]

\* min(item["rank"] for item in items)
BestRank(items) ==
  CHOOSE r \in {items[i].rank : i \in 1..Len(items)} :
    \A i \in 1..Len(items) : r <= items[i].rank

\* variant: groups ordered by size, largest first
BestRankKey_BySize(x) == 0 - Len(x.items)

BestRankKey(x) == x.best_rank

\* panel_order: (panel_code, best_rank, items), sorted by best_rank
PanelOrder(d) ==
  LET tuples == [i \in 1..Len(d) |->
                   [panel_code |-> d[i].panel_code, best_rank |-> BestRank(d[i].items),
                    items |-> d[i].items]]
  IN SortAsc(tuples, [i \in 1..Len(tuples) |-> BestRankKey(tuples[i])])

(***************************************************************************)
(* Rendering of one panel group (lines 935-1064)                           *)
(***************************************************************************)
RankKey(x) == x.rank

\* what is shown for a chunk with these properties; raised: file_name is
\* truthy and no str, so endswith does not exist
RenderProps(props) ==
  LET raw_time == DictGet(props, "chunk_start_time", NONE)
      time_str == IF Truthy(raw_time) /\ raw_time # StrV(sDash) THEN raw_time
                  ELSE StrV(sZeroTime)
      file_name == DictGet(props, "file_name", NONE)
  IN [raised |-> Truthy(file_name) /\ file_name[1] # "str",
      time_str |-> time_str,
      audio |-> IF Truthy(file_name) /\ file_name[1] = "str"
                  THEN StrV(AudioFilename(file_name[2])) ELSE NONE,
      start |-> IF Truthy(file_name) THEN time_to_seconds(time_str) ELSE 0]

\* the properties of an object are those of its chunk: what is shown for
\* each chunk of the store
ChunkRendering == [id \in ChunkIds |-> RenderProps(ChunkProps[id])]

\* what is shown for one item of a group
RenderItem(item) ==
  LET shown == ChunkRendering[item.obj.id]
  IN [raised |-> shown.raised,
      rank |-> item.rank,
      id |-> item.obj.id,
      rerank_score |-> item.obj._rerank_score,
      time_str |-> shown.time_str,
      audio |-> shown.audio,
      start |-> shown.start]

\* the chunks of a group in the order they are shown
RenderItems(items) ==
  LET sorted_items == SortAsc(items, [i \in 1..Len(items) |-> RankKey(items[i])])
  IN [i \in 1..Len(sorted_items) |-> RenderItem(sorted_items[i])]

(***************************************************************************)
(* State                                                                   *)
(***************************************************************************)
VARIABLES
  panels,           \* the objects of CSPC_Panels, in the store's scan order
  corpus,           \* ids of DocChunk objects, best hybrid score first
  now,              \* seconds since the process started
  themes_cache,     \* st.cache_data entry of get_all_themes
  panels_cache,     \* st.cache_data entry of get_all_panels
  pc,               \* position of the script run
  top_k,
  available_themes,
  all_panels,
  selected_theme,
  filtered_panels,
  selected_panel,
  where,
  objects,
  panel_order,
  output,           \* the panel groups shown so far, in order
  status,           \* how the last search ended
  answer,           \* whether the AI answer was shown
  reranked,         \* whether the rerank sort ran
  scores,           \* what reranker.predict returned, in candidate order
  lookup,           \* the last call of get_panel_metadata_from_cspc_panels
  call,             \* the last direct call of a helper, with what it gave
  loads,            \* CrossEncoder models constructed by this process
  notices           \* warnings and errors shown during this run

vars ==
  <<panels, corpus, now, themes_cache, panels_cache, pc, top_k,
    available_themes, all_panels, selected_theme, filtered_panels, selected_panel,
    where, objects, panel_order, output, status, answer, reranked, scores, lookup,
    call, loads, notices>>

storeVars == <<panels, corpus>>
cacheVars == <<themes_cache, panels_cache>>
configVars == <<top_k>>
filterVars == <<available_themes, all_panels, selected_theme, filtered_panels, selected_panel>>
searchVars == <<where, objects, panel_order, output, answer, reranked, scores>>
callVars == <<lookup, call>>

\* alpha, top_k, use_reranker, use_llm are set at the head of every run
\* (lines 666-669); the reranker and the AI answer are always on
use_reranker == TRUE

use_llm == TRUE

\* top_k as set by the source
DefaultTopK == 10

\* bound: the values of top_k explored; the corpora explored are shorter
\* than DefaultTopK, so that objects[:top_k] cuts only for smaller values
MaxTopK == 3

TopKs == 1..MaxTopK

\* no helper was called directly
NoCall == [fn |-> "none"]

NoLookup ==
  [called |-> FALSE, panel_code |-> <<>>, collOk |-> TRUE, strOk |-> TRUE,
   intOk |-> TRUE, raised |-> FALSE, ret |-> EmptyDict, attempts |-> <<>>,
   notice |-> "none"]

LookupRecord(code, collOk, strOk, intOk, r) ==
  [called |-> TRUE, panel_code |-> code, collOk |-> collOk, strOk |-> strOk,
   intOk |-> intOk, raised |-> r.raised, ret |-> r.ret, attempts |-> r.attempts,
   notice |-> r.notice]

InitRun ==
  /\ now = 0
  /\ themes_cache = <<>>
  /\ panels_cache = <<>>
  /\ pc = "idle"
  /\ top_k = DefaultTopK
  /\ available_themes = <<>>
  /\ all_panels = <<>>
  /\ selected_theme = sAll
  /\ filtered_panels = <<>>
  /\ selected_panel = sAll
  /\ where = NoFilter
  /\ objects = <<>>
  /\ panel_order = <<>>
  /\ output = <<>>
  /\ status = "none"
  /\ answer = FALSE
  /\ reranked = FALSE
  /\ scores = <<>>
  /\ lookup = NoLookup
  /\ call = NoCall
  /\ loads = 0
  /\ notices = {}

\* stores the search runs against
SearchStores == {<<Panel333, Panel11>>}

Init ==
  /\ panels \in SearchStores
  /\ corpus \in Corpora
  /\ InitRun

(***************************************************************************)
(* The script run up to the search button (lines 656-828)                  *)
(***************************************************************************)
Range(q) == {q[i] : i \in 1..Len(q)}

Notice(cond, n) == IF cond THEN {n} ELSE {}

\* a call of a function under st.cache_data: the cached value while it is
\* fresh, else the value computed now
Cached(cache, computed) ==
  IF CacheFresh(cache, now) THEN [val |-> cache[1].val, notice |-> "none"] ELSE computed

\* variant: the fallback of a failed scan is not kept
CacheAfter_SkipFailed(cache, computed) ==
  IF CacheFresh(cache, now) THEN cache
  ELSE IF computed.notice = "warning" THEN <<>>
  ELSE <<[val |-> computed.val, at |-> now]>>

\* the cache entry after the call: a fresh entry stays, else the value
\* returned now is stored, whether the scan worked or not
CacheAfter(cache, computed) ==
  IF CacheFresh(cache, now) THEN cache ELSE <<[val |-> computed.val, at |-> now]>>

\* a run starts: the connection, then get_all_themes and get_all_panels;
\* a failed connection stops the run
Rerun ==
  /\ pc = "idle"
  /\ \E connectOk \in BOOLEAN, themesOk \in BOOLEAN, panelsOk \in BOOLEAN :
       LET th == Cached(themes_cache, get_all_themes(panels, themesOk))
           pn == Cached(panels_cache, get_all_panels(panels, panelsOk))
       IN IF connectOk
            THEN /\ themes_cache' = CacheAfter(themes_cache, get_all_themes(panels, themesOk))
                 /\ panels_cache' = CacheAfter(panels_cache, get_all_panels(panels, panelsOk))
                 /\ available_themes' = th.val
                 /\ all_panels' = pn.val
                 /\ notices' = Notice(th.notice = "warning", "themes_warning")
                                 \cup Notice(pn.notice = "warning", "panels_warning")
                 /\ status' = "none"
                 /\ pc' = "theme"
            ELSE /\ notices' = {"connect_error"}
                 /\ status' = "stopped"
                 /\ pc' = "idle"
                 /\ UNCHANGED <<cacheVars, available_themes, all_panels>>
  /\ UNCHANGED <<storeVars, now, configVars, selected_theme, filtered_panels,
                 selected_panel, searchVars, callVars, loads>>

\* the codes of the panels of a theme (lines 767-777)
ThemePanelCodes(store, theme) ==
  LET objs == FetchEqual(store, "theme", StrV(theme), ScanLimit)
  IN {PyStr(objs[i]["panel_code"]) :
        i \in {j \in 1..Len(objs) :
                 Truthy(DictGet(objs[j], "panel_code", NONE))}}

\* variant: a failed filtered scan offers no panel
PanelsForTheme_EmptyOnError(store, panel_list, theme, scanOk) ==
  IF theme = sAll THEN [val |-> panel_list, notice |-> "none"]
  ELSE IF scanOk
    THEN [val |-> SelectSeq(panel_list,
                            LAMBDA x : x.code \in ThemePanelCodes(store, theme)),
          notice |-> "none"]
    ELSE [val |-> <<>>, notice |-> "warning"]

\* filtered_panels (lines 763-785); scanOk = FALSE: the filtered scan raises
PanelsForTheme(store, panel_list, theme, scanOk) ==
  IF theme = sAll THEN [val |-> panel_list, notice |-> "none"]
  ELSE IF scanOk
    THEN [val |-> SelectSeq(panel_list,
                            LAMBDA x : x.code \in ThemePanelCodes(store, theme)),
          notice |-> "none"]
    ELSE [val |-> panel_list, notice |-> "warning"]

\* the theme selectbox holds one of its options; the panel list follows
SelectTheme ==
  /\ pc = "theme"
  /\ \E t \in {sAll} \cup Range(available_themes), scanOk \in BOOLEAN :
       LET fp == PanelsForTheme(panels, all_panels, t, scanOk)
       IN /\ selected_theme' = t
          /\ filtered_panels' = fp.val
          /\ notices' = notices \cup Notice(fp.notice = "warning", "filter_warning")
  /\ pc' = "panel"
  /\ UNCHANGED <<storeVars, now, cacheVars, configVars, available_themes, all_panels,
                 selected_panel, searchVars, status, callVars, loads>>

\* the panel selectbox holds one of its options
SelectPanel ==
  /\ pc = "panel"
  /\ selected_panel' \in {sAll} \cup {filtered_panels[i].display : i \in 1..Len(filtered_panels)}
  /\ pc' = "button"
  /\ UNCHANGED <<storeVars, now, cacheVars, configVars, available_themes, all_panels,
                 selected_theme, filtered_panels, searchVars, status, callVars, loads, notices>>

\* the run ends at the button: it was not clicked, the question is blank,
\* or the OpenAI key is missing
RunEnds ==
  /\ pc = "button"
  /\ \E why \in {"not_clicked", "blank_question", "missing_key"} :
       /\ status' = IF why = "not_clicked" THEN "none" ELSE "stopped"
       /\ notices' = notices \cup Notice(why # "not_clicked", why)
  /\ pc' = "idle"
  /\ UNCHANGED <<storeVars, now, cacheVars, configVars, filterVars, searchVars, callVars, loads>>

\* seconds that pass between two runs
TickStep == 1800

\* bound: the clock stops here
MaxClock == 3600

Tick ==
  /\ pc = "idle"
  /\ now < MaxClock
  /\ now' = now + TickStep
  /\ UNCHANGED <<storeVars, cacheVars, pc, configVars, filterVars, searchVars,
                 status, callVars, loads, notices>>

(***************************************************************************)
(* The search (lines 830-1069)                                             *)
(***************************************************************************)
\* variant: the exception is swallowed without a report
SearchFails_Silent(cause) ==
  /\ status' = "none"
  /\ pc' = "done"
  /\ notices' = notices \cup {cause}

\* except Exception as e: st.error(f"Error: {e}"); the message names the
\* cause, and what was shown before stays shown
SearchFails(cause) ==
  /\ status' = "error"
  /\ pc' = "done"
  /\ notices' = notices \cup {cause}

\* what the theme selectbox can hold: "All" or a theme of the store
ThemeOptions(store) == {sAll} \cup Range(get_all_themes(store, TRUE).val)

\* what the panel selectbox can hold: "All" or the label of a panel
PanelOptions(store) ==
  {sAll} \cup {get_all_panels(store, TRUE).val[i].display :
                 i \in 1..Len(get_all_panels(store, TRUE).val)}

\* the run in which Search is clicked with a question: the settings (lines
\* 666-669), the values held by the two selectboxes, and the filters
\* combined into where (lines 832-844)
SearchClick ==
  /\ pc = "idle"
  /\ top_k' \in TopKs
  /\ \E t \in ThemeOptions(panels), p \in PanelOptions(panels) :
       /\ selected_theme' = t
       /\ selected_panel' = p
       /\ where' = WhereOf(BuildFilters(t, p))
  /\ pc' = "embed"
  /\ UNCHANGED <<storeVars, now, cacheVars, available_themes, all_panels,
                 filtered_panels, objects, panel_order, output, answer, reranked,
                 scores, status, callVars, loads, notices>>

\* oai.embeddings.create
Embed ==
  /\ pc = "embed"
  /\ \E ok \in BOOLEAN :
       IF ok THEN pc' = "query" /\ UNCHANGED <<status, notices>>
       ELSE SearchFails("embedding_error")
  /\ UNCHANGED <<storeVars, now, cacheVars, configVars, filterVars, searchVars, callVars, loads>>

\* docchunk_coll.query.hybrid
Hybrid ==
  /\ pc = "query"
  /\ \E ok \in BOOLEAN :
       IF ok
         THEN /\ objects' = HybridQuery(corpus, where, LimitOf(use_reranker, top_k))
              /\ pc' = "rerank"
              /\ UNCHANGED <<status, notices>>
         ELSE SearchFails("hybrid_error") /\ UNCHANGED objects
  /\ UNCHANGED <<storeVars, now, cacheVars, configVars, filterVars, where,
                 panel_order, output, answer, reranked, scores, callVars, loads>>

\* the reranker, when it is used and there are candidates (lines 877-884):
\* every search constructs its CrossEncoder (line 879);
\* loadOk = FALSE: CrossEncoder(...) raises
RerankStep ==
  /\ pc = "rerank"
  /\ IF use_reranker /\ objects # <<>>
       THEN \E loadOk \in BOOLEAN, predicted \in [1..Len(objects) -> 0..MaxScore] :
              IF loadOk
                THEN /\ objects' = Rerank(objects, predicted)
                     /\ scores' = predicted
                     /\ reranked' = TRUE
                     /\ loads' = loads + 1
                     /\ pc' = "truncate"
                     /\ UNCHANGED <<status, notices>>
                ELSE /\ SearchFails("reranker_error")
                     /\ UNCHANGED <<objects, reranked, scores, loads>>
       ELSE /\ pc' = "truncate"
            /\ UNCHANGED <<objects, reranked, scores, loads, status, notices>>
  /\ UNCHANGED <<storeVars, now, cacheVars, configVars, filterVars, where,
                 panel_order, output, answer, callVars>>

\* objects = objects[:top_k] (line 886)
TruncateStep ==
  /\ pc = "truncate"
  /\ objects' = Truncate(objects, top_k)
  /\ pc' = "llm"
  /\ UNCHANGED <<storeVars, now, cacheVars, configVars, filterVars, where,
                 panel_order, output, status, answer, reranked, scores, callVars, loads, notices>>

\* variant: the answer is generated for an empty list too
Answer_OnEmpty ==
  /\ pc = "llm"
  /\ IF use_llm
       THEN \E ok \in BOOLEAN :
              IF ok THEN answer' = TRUE /\ pc' = "assemble" /\ UNCHANGED <<status, notices>>
              ELSE SearchFails("answer_error") /\ UNCHANGED answer
       ELSE pc' = "assemble" /\ UNCHANGED <<answer, status, notices>>
  /\ UNCHANGED <<storeVars, now, cacheVars, configVars, filterVars, where, objects,
                 panel_order, output, reranked, scores, callVars, loads>>

\* the AI answer; ok = FALSE: oai.chat.completions.create raises
Answer ==
  /\ pc = "llm"
  /\ IF use_llm /\ objects # <<>>
       THEN \E ok \in BOOLEAN :
              IF ok THEN answer' = TRUE /\ pc' = "assemble" /\ UNCHANGED <<status, notices>>
              ELSE SearchFails("answer_error") /\ UNCHANGED answer
       ELSE pc' = "assemble" /\ UNCHANGED <<answer, status, notices>>
  /\ UNCHANGED <<storeVars, now, cacheVars, configVars, filterVars, where, objects,
                 panel_order, output, reranked, scores, callVars, loads>>

\* "No results found", or ranks, groups and their order
Assemble ==
  /\ pc = "assemble"
  /\ IF objects = <<>>
       THEN /\ status' = "no_results"
            /\ pc' = "done"
            /\ UNCHANGED <<panel_order, notices>>
       ELSE LET pd == PanelsDict(Ranked(objects))
            IN IF pd.raised
                 THEN SearchFails("grouping_error") /\ UNCHANGED panel_order
                 ELSE /\ panel_order' = PanelOrder(pd.d)
                      /\ pc' = "render"
                      /\ UNCHANGED <<status, notices>>
  /\ UNCHANGED <<storeVars, now, cacheVars, configVars, filterVars, where, objects,
                 output, answer, reranked, scores, callVars, loads>>

\* the lookups a search can make: what get_panel_metadata_from_cspc_panels
\* gives for the store searched and the code of a group, by what fails
PanelLookups ==
  [st \in SearchStores, code \in GroupCodes,
   collOk \in BOOLEAN, strOk \in BOOLEAN, intOk \in BOOLEAN |->
     get_panel_metadata_from_cspc_panels(st, code, collOk, strOk, intOk)]

\* what the lookup of a group can come to: whether it raised, the record it
\* returned and the warning or error it showed, over what can fail in it
LookupOutcomes ==
  [st \in SearchStores, code \in GroupCodes |->
     {[raised |-> PanelLookups[st, code, collOk, strOk, intOk].raised,
       ret |-> PanelLookups[st, code, collOk, strOk, intOk].ret,
       notice |-> PanelLookups[st, code, collOk, strOk, intOk].notice] :
        collOk \in BOOLEAN, strOk \in BOOLEAN, intOk \in BOOLEAN}]

\* one iteration of the loop over panel_order: the metadata lookup, the
\* header, and the chunks of the group
RenderPanel ==
  /\ pc = "render"
  /\ LET g == panel_order[Len(output) + 1]
         items == RenderItems(g.items)
         itemRaised == \E i \in 1..Len(items) : items[i].raised
     IN \E r \in LookupOutcomes[panels, g.panel_code] :
          IF r.raised \/ itemRaised
            THEN SearchFails("render_error") /\ UNCHANGED output
            ELSE /\ output' = Append(output,
                                     [panel_code |-> g.panel_code,
                                      best_rank |-> g.best_rank,
                                      metadata |-> r.ret,
                                      items |-> items])
                 /\ notices' = notices \cup Notice(r.notice # "none", "lookup_" \o r.notice)
                 /\ IF Len(output) + 1 = Len(panel_order)
                      THEN status' = "done" /\ pc' = "done"
                      ELSE UNCHANGED <<status, pc>>
  /\ UNCHANGED <<storeVars, now, cacheVars, configVars, filterVars, where, objects,
                 panel_order, answer, reranked, scores, callVars, loads>>

Next ==
  \/ SearchClick
  \/ Embed
  \/ Hybrid
  \/ RerankStep
  \/ TruncateStep
  \/ Answer
  \/ Assemble
  \/ RenderPanel

Spec == Init /\ [][Next]_vars

(***************************************************************************)
(* The filter part of the runs, with the clock of the caches               *)
(***************************************************************************)
InitFilters ==
  /\ panels \in PanelStores
  /\ corpus = <<>>
  /\ InitRun

NextFilters ==
  \/ Rerun
  \/ SelectTheme
  \/ SelectPanel
  \/ RunEnds
  \/ Tick

SpecFilters == InitFilters /\ [][NextFilters]_vars

(***************************************************************************)
(* Direct calls of the panel lookup                                        *)
(***************************************************************************)
s7 == <<"7">>
s7Padded == <<" ", "7">>
s999 == <<"9", "9", "9">>

LookupCodes == {<<>>, s11, s333, s7, s7Padded, s999, sUnknown}

LookupCall ==
  /\ pc = "idle"
  /\ \E code \in LookupCodes, collOk \in BOOLEAN, strOk \in BOOLEAN, intOk \in BOOLEAN :
       lookup' = LookupRecord(code, collOk, strOk, intOk,
                   get_panel_metadata_from_cspc_panels(panels, code, collOk, strOk, intOk))
  /\ UNCHANGED <<storeVars, now, cacheVars, pc, configVars, filterVars, searchVars,
                 status, call, loads, notices>>

InitLookup ==
  /\ panels \in PanelStores
  /\ corpus = <<>>
  /\ InitRun

NextLookup == LookupCall

SpecLookup == InitLookup /\ [][NextLookup]_vars

(***************************************************************************)
(* Direct calls of the helpers of the result display, one per behaviour    *)
(***************************************************************************)
\* bound: length of the generated time strings
MaxTimeLen == 4

\* characters of the generated time strings: digits, the separator, a sign,
\* a blank and a letter
TimeChars == {"1", "5", ":", "-", " ", "x"}

s45 == <<"4", "5">>
s0 == <<"0">>
sHyphen == <<"-">>
sFourParts == <<"1", ":", "2", ":", "3", ":", "4">>
sMinus == <<"-", "1", ":", "3", "0">>

\* time strings given to time_to_seconds: the generated ones, the values of
\* chunk_start_time in the store, and the placeholders
TimeInputs ==
  Arrangements(TimeChars, MaxTimeLen)
    \cup {sTime1, sTime2, s45, <<>>, sNA, s0, sHyphen, sDash, sFourParts, sMinus}

TimeCall ==
  /\ pc = "idle"
  /\ call = NoCall
  /\ \E t \in TimeInputs :
       call' = [fn |-> "time_to_seconds", arg |-> t,
                raised |-> time_to_seconds_call(StrV(t)).raised,
                ret |-> time_to_seconds_call(StrV(t)).ret]
  /\ UNCHANGED <<storeVars, now, cacheVars, pc, configVars, filterVars, searchVars,
                 status, lookup, loads, notices>>

\* bound: number of suffixes put behind a base name
MaxSuffixes == 2

sA == <<"a">>
sPanel12 == <<"p", "a", "n", "e", "l", "1", "2">>
sPanel12Ready == <<"p", "a", "n", "e", "l", "1", "2", ".", "m", "p", "3", "-", "r", "e", "a", "d", "y">>

\* file names given to the audio chain: a base name followed by suffixes;
\* the chain runs for a truthy file_name only (line 1020)
AudioBases == {<<>>, sA, sPanel12, sPanel12Ready}

AudioSuffixes == {sTranscriptTxt, sTxt, sTranscript, sMp3}

RECURSIVE WithSuffixes(_, _)
WithSuffixes(names, n) ==
  IF n = 0 THEN names
  ELSE names \cup WithSuffixes({x \o suf : x \in names, suf \in AudioSuffixes}, n - 1)

AudioInputs == WithSuffixes(AudioBases, MaxSuffixes) \ {<<>>}

AudioCall ==
  /\ pc = "idle"
  /\ call = NoCall
  /\ \E f \in AudioInputs :
       call' = [fn |-> "audio_filename", arg |-> f, ret |-> AudioFilename(f)]
  /\ UNCHANGED <<storeVars, now, cacheVars, pc, configVars, filterVars, searchVars,
                 status, lookup, loads, notices>>

\* bound: the largest top_k for which the limit of the query is computed
MaxLimitTopK == 30

\* limit = 50 if use_reranker else top_k (line 852), for either setting of
\* use_reranker and every top_k
LimitCall ==
  /\ pc = "idle"
  /\ call = NoCall
  /\ \E rr \in BOOLEAN, k \in 1..MaxLimitTopK :
       call' = [fn |-> "limit", reranking |-> rr, k |-> k, ret |-> LimitOf(rr, k)]
  /\ UNCHANGED <<storeVars, now, cacheVars, pc, configVars, filterVars, searchVars,
                 status, lookup, loads, notices>>

InitHelpers ==
  /\ panels = <<>>
  /\ corpus = <<>>
  /\ InitRun

NextHelpers ==
  \/ TimeCall
  \/ AudioCall
  \/ LimitCall

SpecHelpers == InitHelpers /\ [][NextHelpers]_vars

(***************************************************************************)
(* Several searches in one process                                         *)
(***************************************************************************)
\* bound: searches go on until this many models were constructed
MaxLoads == 2

\* the corpora searched again and again
SessionCorpora == {<<1>>, <<2, 1>>, <<4>>}

\* the next run of the script in the same process: what the last search
\* showed is gone, what the process holds stays
NewRun ==
  /\ pc = "done"
  /\ loads < MaxLoads
  /\ pc' = "idle"
  /\ where' = NoFilter
  /\ objects' = <<>>
  /\ panel_order' = <<>>
  /\ output' = <<>>
  /\ answer' = FALSE
  /\ reranked' = FALSE
  /\ scores' = <<>>
  /\ status' = "none"
  /\ notices' = {}
  /\ UNCHANGED <<storeVars, now, cacheVars, configVars, filterVars, callVars, loads>>

InitSessions ==
  /\ panels \in SearchStores
  /\ corpus \in SessionCorpora
  /\ InitRun

NextSessions ==
  \/ Next
  \/ NewRun

SpecSessions == InitSessions /\ [][NextSessions]_vars

(***************************************************************************)
(* Properties                                                              *)
(***************************************************************************)
RECURSIVE Flatten(_)
Flatten(qq) == IF qq = <<>> THEN <<>> ELSE Head(qq) \o Flatten(Tail(qq))

MinOf(S) == CHOOSE m \in S : \A x \in S : m <= x

\* the ranks shown in a group of the output, in the order shown
ShownRanks(g) == [i \in 1..Len(g.items) |-> g.items[i].rank]

\* C1: the panel groups are shown in ascending order of the smallest rank
\* they hold, and the chunks of a group in ascending rank
C1_GroupsByBestRank ==
  LET best == [g \in 1..Len(output) |-> MinOf(Range(ShownRanks(output[g])))]
  IN /\ \A i, j \in 1..Len(output) : i < j => best[i] < best[j]
     /\ \A g \in 1..Len(output) :
          \A a, b \in 1..Len(output[g].items) :
            a < b => output[g].items[a].rank < output[g].items[b].rank

\* ranks [1:X, 2:Y, 3:X] were shown as X with [1, 3], then Y with [2]
C1_Witness ==
  /\ status = "done"
  /\ Len(output) = 2
  /\ ShownRanks(output[1]) = <<1, 3>>
  /\ ShownRanks(output[2]) = <<2>>

\* the items of panel_order, group after group
RankedItems == Flatten([g \in 1..Len(panel_order) |-> panel_order[g].items])

ShownItems == Flatten([g \in 1..Len(output) |-> output[g].items])

\* C2: the ranks given to the final list of n >= 1 chunks are exactly 1..n,
\* the chunk at position i of the final list having rank i, with or without
\* reranking
C2_DenseRanks ==
  /\ (pc = "render" \/ status = "done") =>
       LET ri == RankedItems
       IN /\ Len(ri) = Len(objects)
          /\ {ri[i].rank : i \in 1..Len(ri)} = 1..Len(objects)
          /\ \A i \in 1..Len(ri) :
               /\ ri[i].rank \in 1..Len(objects)
               /\ ri[i].obj = objects[ri[i].rank]
  /\ status = "done" =>
       LET si == ShownItems
       IN /\ Len(si) = Len(objects)
          /\ {si[i].rank : i \in 1..Len(si)} = 1..Len(objects)

C2_Witness ==
  /\ status = "done"
  /\ reranked
  /\ Len(objects) = 3
  /\ {ShownItems[i].rank : i \in 1..Len(ShownItems)} = {1, 2, 3}

\* the candidate list the hybrid query returned for this search
Retrieved == HybridQuery(corpus, where, LimitOf(use_reranker, top_k))

\* C3: the list after reranking is a permutation of the candidate list, and
\* every candidate carries the score predicted for it
C3_RerankIsPermutation ==
  (pc = "truncate" /\ reranked) =>
    LET cands == Retrieved
    IN /\ Len(objects) = Len(cands)
       /\ \A i \in 1..Len(cands) :
            Cardinality({j \in 1..Len(objects) : objects[j].id = cands[i].id}) = 1
       /\ \A i \in 1..Len(cands), j \in 1..Len(objects) :
            objects[j].id = cands[i].id =>
              /\ objects[j].properties = cands[i].properties
              /\ objects[j]._rerank_score = IntV(scores[i])

\* three candidates were reranked and the best retrieved one lost its place
C3_Witness ==
  /\ pc = "truncate"
  /\ reranked
  /\ Len(objects) = 3
  /\ objects[1].id # Retrieved[1].id

\* C4: a reranker that fails to load does not fail the search: the search
\* ends with its panel groups shown, as without reranking
C4_RerankLoadFailureDegrades ==
  "reranker_error" \in notices =>
    (pc = "done" => (status = "done" /\ ~reranked /\ Len(output) >= 1))

\* C5: once retrieval has returned at least one candidate, the search ends
\* with the ranked panel groups shown, whatever fails afterwards
C5_OnlyRetrievalAborts ==
  (pc = "done" /\ objects # <<>>) => (status = "done" /\ Len(output) >= 1)

\* C6: a failed embedding call or hybrid query ends the search with an error
\* report and nothing else: no rerank, no answer, no rank, no panel group
C6_RetrievalFailureReported ==
  ("embedding_error" \in notices \/ "hybrid_error" \in notices) =>
    /\ pc = "done"
    /\ status = "error"
    /\ objects = <<>>
    /\ ~reranked
    /\ scores = <<>>
    /\ ~answer
    /\ panel_order = <<>>
    /\ output = <<>>

C6_Witness ==
  /\ pc = "done"
  /\ "hybrid_error" \in notices
  /\ corpus # <<>>

\* C7: the lookup tries both typings before it gives up: an empty record for
\* a numeric code is returned only after the integer-typed query, and
\* "333" finds the panel whose code is stored as the integer 333
C7_BothTypingsTried ==
  (lookup.called /\ lookup.collOk /\ PyInt(lookup.panel_code).ok) =>
    /\ lookup.ret = EmptyDict => lookup.attempts = <<"str", "int">>
    /\ (/\ lookup.panel_code = s333
        /\ lookup.intOk
        /\ \E i \in 1..Len(panels) : panels[i] = Panel333)
         => lookup.ret = PanelRecord(Panel333)

\* a failure met by the last lookup that it could not recover from
LookupFailed ==
  \/ ~lookup.collOk
  \/ ~lookup.strOk /\ (~PyInt(lookup.panel_code).ok \/ ~lookup.intOk)

\* C8: the panel lookup lets no error out: for every code and every failure
\* of the collection access, the text query or the integer query it returns,
\* and what it returns after a failure is the empty record
C8_LookupNeverRaises ==
  lookup.called =>
    /\ ~lookup.raised
    /\ (lookup.panel_code = <<>> \/ LookupFailed) => lookup.ret = EmptyDict

\* "Unknown" was looked up, the text query raised and int("Unknown") too
C8_Witness ==
  /\ lookup.called
  /\ lookup.panel_code = sUnknown
  /\ lookup.collOk
  /\ ~lookup.strOk
  /\ lookup.ret = EmptyDict
  /\ lookup.notice = "warning"

\* a failed scan of get_all_themes or get_all_panels gives the empty list
EnumerationsEmptyOnError ==
  /\ "themes_warning" \in notices => available_themes = <<>>
  /\ "panels_warning" \in notices => all_panels = <<>>

\* C9 as stated: every failed enumeration gives an empty result, also the
\* filtered scan for the panels of a theme, so that no panel is offered
C9_AllEnumerationsEmptyOnError ==
  /\ EnumerationsEmptyOnError
  /\ "filter_warning" \in notices => filtered_panels = <<>>

\* C9: a failed scan gives an empty theme list and an empty panel list; a
\* failed filtered scan for the panels of a theme leaves every panel offered
C9_FilterFallsBackToAllPanels ==
  /\ EnumerationsEmptyOnError
  /\ "filter_warning" \in notices => filtered_panels = all_panels

C9_Witness ==
  /\ "filter_warning" \in notices
  /\ selected_theme # sAll
  /\ filtered_panels # <<>>

\* the code of the panel whose label the panel selectbox holds
SelectedPanelCode ==
  LET pairs == get_all_panels(panels, TRUE).val
  IN pairs[CHOOSE i \in 1..Len(pairs) : pairs[i].display = selected_panel].code

ChunkInTheme(id, t) ==
  /\ "panel_theme" \in DOMAIN ChunkProps[id]
  /\ \/ ChunkProps[id]["panel_theme"] = StrV(t)
     \/ /\ ChunkProps[id]["panel_theme"][1] = "list"
        /\ StrV(t) \in Range(ChunkProps[id]["panel_theme"][2])

ChunkInPanel(id, c) ==
  "panel_code" \in DOMAIN ChunkProps[id] /\ ChunkProps[id]["panel_code"] = StrV(c)

\* the chunk satisfies every selected filter
ChunkSelected(id) ==
  /\ selected_theme # sAll => ChunkInTheme(id, selected_theme)
  /\ selected_panel # sAll => ChunkInPanel(id, SelectedPanelCode)

Ids(objs) == [i \in 1..Len(objs) |-> objs[i].id]

\* the retrieval returns the best chunks, up to the limit, among those that
\* satisfy the conjunction of the selected filters
RetrievalIsConjunctive ==
  pc = "rerank" =>
    Ids(objects) = FirstN(SelectSeq(corpus, ChunkSelected), LimitOf(use_reranker, top_k))

BothSelected == selected_theme # sAll /\ selected_panel # sAll

\* the list a search with the filter f alone ends with, the reranker giving
\* the chunk id the score sc[id]
FinalWith(f, sc) ==
  LET cands == HybridQuery(corpus, f, LimitOf(use_reranker, top_k))
  IN Truncate(Rerank(cands, [i \in 1..Len(cands) |-> sc[cands[i].id]]), top_k)

\* the scores of the chunks of the corpus that agree with those predicted
\* for the candidates of this search
ScoreExtensions ==
  {sc \in [Range(corpus) -> 0..MaxScore] :
     \A i \in 1..Len(Retrieved) : sc[Retrieved[i].id] = scores[i]}

\* C10 as stated: the predicate is the conjunction of the selected filters,
\* and the result with both filters is a subset of the result with the
\* theme filter alone and of the result with the panel filter alone
C10_ResultSubsetOfSingleFilter ==
  /\ RetrievalIsConjunctive
  /\ (pc = "llm" /\ BothSelected /\ reranked) =>
       \A sc \in ScoreExtensions :
         /\ Range(Ids(objects)) \subseteq
              Range(Ids(FinalWith(ThemeFilter(selected_theme), sc)))
         /\ Range(Ids(objects)) \subseteq
              Range(Ids(FinalWith(PanelFilter(SelectedPanelCode), sc)))

\* C10: the predicate is the conjunction of the selected filters, and every
\* chunk returned with both filters satisfies the theme filter alone and the
\* panel filter alone
C10_ConjunctiveFilters ==
  /\ RetrievalIsConjunctive
  /\ (pc = "rerank" /\ BothSelected) =>
       \A i \in 1..Len(objects) :
         /\ ChunkInTheme(objects[i].id, selected_theme)
         /\ ChunkInPanel(objects[i].id, SelectedPanelCode)

\* both filters selected, a chunk returned, and a chunk of the theme left out
C10_Witness ==
  /\ pc = "rerank"
  /\ BothSelected
  /\ objects # <<>>
  /\ \E i \in 1..Len(corpus) :
       /\ ChunkInTheme(corpus[i], selected_theme)
       /\ ~ChunkInPanel(corpus[i], SelectedPanelCode)

\* C11: time_to_seconds is total: for every string it raises nothing and
\* returns a non-negative integer
C11_TimeTotalNonNegative ==
  call.fn = "time_to_seconds" => (call.raised = "none" /\ call.ret \in Nat)

\* C12: "HH:MM:SS" gives H*3600+M*60+S, "MM:SS" gives M*60+S, and a bare
\* integer count of seconds gives that integer
C12_ThreeFormats ==
  call.fn = "time_to_seconds" =>
    /\ call.arg = sTime1 => call.ret = 3723
    /\ call.arg = sTime2 => call.ret = 754
    /\ call.arg = s45 => call.ret = 45
    /\ IsDigitStr(call.arg) => call.ret = DigitsValue(call.arg, 0)

\* the parts of the argument of the last call, cut at ":"
TimeParts == SplitChar(call.arg, ":")

\* some part is no integer literal for int(): empty, or with a character or
\* an arrangement that int() rejects (a sign, surrounding blanks and single
\* underscores between digits are accepted)
SomePartMalformed == \E i \in 1..Len(TimeParts) : ~PyInt(TimeParts[i]).ok

AudioCut ==
  SubSeq(call.arg, Len(call.ret) - Len(sMp3) + 1, Len(call.arg))

\* C14: the audio name is the file name without a trailing
\* "_transcript.txt", else without a trailing ".txt", then without a
\* trailing "_transcript", followed by ".mp3"
C14_AudioChain ==
  call.fn = "audio_filename" =>
    /\ call.arg = sPanel12 \o sTranscriptTxt => call.ret = sPanel12 \o sMp3
    /\ call.arg = sPanel12 \o sTxt => call.ret = sPanel12 \o sMp3
    /\ call.arg = sPanel12 \o sTranscript => call.ret = sPanel12 \o sMp3
    /\ call.arg = sPanel12Ready \o sTranscriptTxt => call.ret = sPanel12Ready \o sMp3
    /\ EndsWith(call.ret, sMp3)
    /\ Len(call.ret) - Len(sMp3) <= Len(call.arg)
    /\ call.arg = SubSeq(call.ret, 1, Len(call.ret) - Len(sMp3)) \o AudioCut
    /\ AudioCut \in {<<>>, sTxt, sTranscriptTxt, sTranscript,
                      sTranscript \o sTxt, sTranscript \o sTranscriptTxt}
    /\ EndsWith(call.arg, sTxt) => EndsWith(AudioCut, sTxt)
    /\ EndsWith(call.arg, sTranscriptTxt) => EndsWith(AudioCut, sTranscriptTxt)
    /\ (~EndsWith(call.arg, sTxt) /\ EndsWith(call.arg, sTranscript))
         => AudioCut = sTranscript
    /\ (~EndsWith(call.arg, sTxt) /\ ~EndsWith(call.arg, sTranscript))
         => AudioCut = <<>>

\* "panel12.mp3-ready_transcript.txt" lost its suffix and kept ".mp3-ready"
C14_Witness ==
  /\ call.fn = "audio_filename"
  /\ call.arg = sPanel12Ready \o sTranscriptTxt
  /\ call.ret = sPanel12Ready \o sMp3

\* C15: the stripping chain is idempotent: applied to what it left of a
\* file name, it leaves that unchanged
C15_StripIdempotent ==
  call.fn = "audio_filename" =>
    StrippedName(StrippedName(call.arg)) = StrippedName(call.arg)

\* C20: the limit of the query is top_k without the reranker and the pool
\* of 50 with it, and is at least top_k for every top_k considered
C20_LimitWidened ==
  call.fn = "limit" =>
    /\ call.reranking => call.ret = RerankPool
    /\ ~call.reranking => call.ret = call.k
    /\ call.ret >= call.k

C20_Witness ==
  /\ call.fn = "limit"
  /\ call.reranking
  /\ call.k = 30
  /\ call.ret = 50

\* the search got past the hybrid query
Retrieval_Done ==
  /\ pc \in {"rerank", "truncate", "llm", "assemble", "render", "done"}
  /\ "embedding_error" \notin notices
  /\ "hybrid_error" \notin notices

\* C16: a search whose query returns no candidate ends with "No results
\* found" and without error: no rerank, no model load, no answer, no rank,
\* no lookup warning and no panel group
C16_EmptyResultNoError ==
  (Retrieval_Done /\ Retrieved = <<>>) =>
    /\ objects = <<>>
    /\ ~reranked
    /\ scores = <<>>
    /\ loads = 0
    /\ ~answer
    /\ panel_order = <<>>
    /\ output = <<>>
    /\ notices = {}
    /\ status \in {"none", "no_results"}
    /\ pc = "done" => status = "no_results"

\* the filters left nothing of a corpus with chunks in it
C16_Witness ==
  /\ pc = "done"
  /\ status = "no_results"
  /\ corpus # <<>>
  /\ Retrieved = <<>>

\* the places of the output where the chunk with this id and rank is shown
ShownAt(id, rank) ==
  {<<g, k>> \in (1..Len(output)) \X (1..MaxCorpus + 1) :
     /\ k <= Len(output[g].items)
     /\ output[g].items[k].id = id
     /\ output[g].items[k].rank = rank}

\* C17: whatever the lookups give and whatever the time and the file name
\* of a chunk are, a search that retrieved, reranked and answered shows
\* every chunk of its final list in exactly one panel group, with its rank
C17_EveryChunkShown ==
  (/\ Retrieval_Done
   /\ pc = "done"
   /\ objects # <<>>
   /\ "reranker_error" \notin notices
   /\ "answer_error" \notin notices) =>
    /\ status = "done"
    /\ \A i \in 1..Len(objects) : Cardinality(ShownAt(objects[i].id, i)) = 1

\* C19: after the rerank the candidates are in non-increasing order of
\* score, and candidates of equal score in the order they were retrieved
C19_SortedStable ==
  (pc = "truncate" /\ reranked) =>
    LET cands == Retrieved
        at == [id \in Range(Ids(cands)) |->
                 CHOOSE i \in 1..Len(cands) : cands[i].id = id]
    IN \A i, j \in 1..Len(objects) :
         i < j =>
           /\ RerankKey(objects[i]) >= RerankKey(objects[j])
           /\ RerankKey(objects[i]) = RerankKey(objects[j])
                => at[objects[i].id] < at[objects[j].id]

\* scores <<0, 1, 0>>: the second candidate went first, the tie kept its order
C19_Witness ==
  /\ pc = "truncate"
  /\ reranked
  /\ scores = <<0, 1, 0>>
  /\ Ids(objects) = <<Retrieved[2].id, Retrieved[1].id, Retrieved[3].id>>

\* C18: the process constructs the reranker model at most once, however
\* many searches it runs
C18_LoadedAtMostOnce == loads <= 1

\* the code the claim gives a chunk: its panel_code when it has one, else
\* the first run of digits of its file_name, else "Unknown"
ClaimedCode(id) ==
  LET props == ChunkProps[id]
      has(k) == k \in DOMAIN props /\ Truthy(props[k])
  IN IF has("panel_code") THEN PyStr(props["panel_code"])
     ELSE IF has("file_name") /\ props["file_name"][1] = "str"
               /\ FirstDigitRun(props["file_name"][2]).ok
       THEN FirstDigitRun(props["file_name"][2]).val
     ELSE sUnknown

\* C21: every chunk of the final list is grouped, under a non-empty code:
\* its panel_code, else the first run of digits of its file_name, else
\* "Unknown"; chunks of equal code are in one group
C21_GroupedByCode ==
  /\ "grouping_error" \notin notices
  /\ \A g \in 1..Len(panel_order) :
       /\ panel_order[g].panel_code # <<>>
       /\ \A k \in 1..Len(panel_order[g].items) :
            panel_order[g].panel_code = ClaimedCode(panel_order[g].items[k].obj.id)
  /\ \A g, h \in 1..Len(panel_order) :
       panel_order[g].panel_code = panel_order[h].panel_code => g = h

\* the fields of the record returned for a panel that was found
FoundFields == DOMAIN lookup.ret

\* C22: the record returned for a panel that is found has no null field: a
\* field stored as a list is returned as its first element, a field that is
\* absent or an empty list as the empty string
C22_NoNullField ==
  (lookup.called /\ FoundFields # {}) =>
    \A f \in FoundFields : lookup.ret[f] # NONE

\* the smaller of two numbers
Min2(a, b) == IF a <= b THEN a ELSE b

\* C23: the final list has min(top_k, number of candidates) chunks; after a
\* rerank no candidate left out has a higher score than one kept, and
\* without a rerank the list is the head of the candidate list
C23_TopKOfPool ==
  (Retrieval_Done /\ pc \in {"llm", "assemble", "render", "done"}
     /\ "reranker_error" \notin notices) =>
    LET cands == Retrieved
        kept == Range(Ids(objects))
        at == [id \in Range(Ids(cands)) |->
                 CHOOSE i \in 1..Len(cands) : cands[i].id = id]
    IN /\ Len(objects) = Min2(top_k, Len(cands))
       /\ kept \subseteq Range(Ids(cands))
       /\ reranked =>
            \A i \in 1..Len(cands) :
              cands[i].id \notin kept =>
                \A j \in 1..Len(objects) : scores[i] <= scores[at[objects[j].id]]
       /\ ~reranked => Ids(objects) = Ids(FirstN(cands, top_k))

\* three candidates, top_k = 2: the first retrieved was scored lowest and
\* left out
C23_Witness ==
  /\ pc = "llm"
  /\ reranked
  /\ top_k = 2
  /\ Len(Retrieved) = 3
  /\ scores = <<0, 1, 1>>
  /\ Ids(objects) = <<Retrieved[2].id, Retrieved[3].id>>

\* a step in which a run calls get_all_themes and get_all_panels
EnumerationStep == pc = "idle" /\ pc' = "theme"

\* the rule of one cache over such a step: a fresh entry is returned as it
\* is and stays, whatever the store would answer now; else the store is
\* scanned and what the call returns is stored with the time of the call,
\* the empty list of a failed scan like any other list
CacheRule(cache, cacheAfter, returned, warning) ==
  /\ CacheFresh(cache, now) => (cacheAfter = cache /\ returned = cache[1].val)
  /\ ~CacheFresh(cache, now) => cacheAfter = <<[val |-> returned, at |-> now]>>
  /\ (~CacheFresh(cache, now) /\ warning \in notices') => returned = <<>>

\* C24: a failed enumeration is cached like a successful one: the empty
\* list of a failed scan is stored, every call within the TTL returns the
\* stored list without a scan, also when the store answers again, and the
\* first call after the TTL scans again
C24_FailureCached ==
  [][EnumerationStep =>
       /\ CacheRule(themes_cache, themes_cache', available_themes', "themes_warning")
       /\ CacheRule(panels_cache, panels_cache', all_panels', "panels_warning")]_vars

\* a run within the TTL of a failed scan: the store holds themes and panels,
\* the run was offered none and the store was not asked
C24_Witness ==
  /\ pc = "theme"
  /\ themes_cache # <<>>
  /\ themes_cache[1].val = <<>>
  /\ now > themes_cache[1].at
  /\ CacheFresh(themes_cache, now)
  /\ available_themes = <<>>
  /\ get_all_themes(panels, TRUE).val # <<>>
  /\ panels_cache # <<>>
  /\ panels_cache[1].val = <<>>
  /\ all_panels = <<>>
  /\ get_all_panels(panels, TRUE).val # <<>>

====
